---- MODULE Spec2Model ----
(***************************************************************************)
(* A model of supercutter.py: the subtitle scan (find_keywords,            *)
(* find_all_keywords), the timecode codec (timecode) and the EDL writer    *)
(* (write_edl).                                                            *)
(*                                                                         *)
(* Text is modelled by TLA+ strings, taken apart with Len and SubSeq.      *)
(* Times are float seconds in the program; here a time is an integer       *)
(* number of ticks, TicksPerSec ticks to the second, and the arithmetic on *)
(* them is exact.                                                          *)
(***************************************************************************)
EXTENDS Integers, Sequences, FiniteSets, TLC

VARIABLES
    pc,           \* where the running function is
    directory,    \* find_all_keywords: the os.scandir entries, [name, vtt]
    keywords,     \* the keyword list
    entry_i,      \* find_all_keywords: number of entries already scanned
    hits,         \* find_all_keywords: `hits` of the entry scanned last
    prov,         \* for each element of hits: the cue, line and keyword index
    result,       \* the List[Video] built by the scan / given to write_edl
    f,            \* write_edl: the strings written to the sink, in order
    counter,      \* write_edl: counter
    edit_time,    \* write_edl: edit_time, in ticks
    vid_i,        \* write_edl: index of the video of the outer loop
    hit_i,        \* write_edl: number of hits of that video already written
    secs,         \* timecode: argument secs, in ticks
    fps,          \* timecode: argument fps
    code          \* timecode: the string returned

vars == <<pc, directory, keywords, entry_i, hits, prov, result, f,
          counter, edit_time, vid_i, hit_i, secs, fps, code>>

scanVars == <<directory, keywords, entry_i, hits, prov>>
edlVars  == <<f, counter, edit_time, vid_i, hit_i>>
tcVars   == <<secs, fps, code>>

(***************************************************************************)
(* Bounds of the model.                                                    *)
(***************************************************************************)
TicksPerSec == 120   \* resolution of a time value
MaxLines    == 3     \* physical lines in one subtitle file
MaxFiles    == 3     \* entries of a scanned directory
CueTicks    == 90    \* length of one caption
MaxEdits    == 3     \* hits in a small corpus given to write_edl
Overshoot   == 1     \* hits above the limit in the longest corpus

(***************************************************************************)
(* Strings: str.strip, str.lower, str.split, `in`.                         *)
(***************************************************************************)
Char(s, i) == SubSeq(s, i, i)

IsSpace(c) == c \in {" ", "\n", "\t"}

\* str.strip(): the text without its leading and trailing whitespace
Strip(s) ==
    LET keep == {i \in 1..Len(s) : ~IsSpace(Char(s, i))}
    IN  IF keep = {} THEN ""
        ELSE LET lo == CHOOSE i \in keep : \A j \in keep : i <= j
                 hi == CHOOSE i \in keep : \A j \in keep : j <= i
             IN  SubSeq(s, lo, hi)

UpperCase == "ABCDEFGHIJKLMNOPQRSTUVWXYZ"
LowerCase == "abcdefghijklmnopqrstuvwxyz"

LowerChar(c) ==
    IF \E i \in 1..Len(UpperCase) : Char(UpperCase, i) = c
    THEN Char(LowerCase, CHOOSE i \in 1..Len(UpperCase) : Char(UpperCase, i) = c)
    ELSE c

RECURSIVE Lower(_)
\* str.lower()
Lower(s) == IF s = "" THEN "" ELSE LowerChar(Char(s, 1)) \o Lower(SubSeq(s, 2, Len(s)))

RECURSIVE Split(_, _)
\* str.split(sep) for a one-character separator: always at least one piece
Split(s, sep) ==
    LET at == {i \in 1..Len(s) : Char(s, i) = sep}
    IN  IF at = {} THEN <<s>>
        ELSE LET i == CHOOSE k \in at : \A j \in at : k <= j
             IN  <<SubSeq(s, 1, i - 1)>> \o Split(SubSeq(s, i + 1, Len(s)), sep)

\* `word in line`: substring containment
Contains(word, line) ==
    \E i \in 1..(Len(line) - Len(word) + 1) : SubSeq(line, i, i + Len(word) - 1) = word

\* caption.text.strip().lower().split("\n")
CaptionLines(caption) == Split(Lower(Strip(caption.text)), "\n")

(***************************************************************************)
(* find_keywords.  A hit is tagged with the indexes of the cue, the line   *)
(* and the keyword that produced it; Keyword() drops the tags.             *)
(***************************************************************************)
\* the test of the duplicate line
IsRepeat(line, prevline) == line = prevline

\* the keywords taken last to first
LineHitsReversed(line, caption, ci, li, kws) ==
    LET n   == Len(kws)
        all == [k \in 1..n |->
                  [word |-> kws[n + 1 - k], start |-> caption.start, end |-> caption.end,
                   cue |-> ci, line |-> li, kw |-> n + 1 - k]]
    IN  SelectSeq(all, LAMBDA h : Contains(h.word, line))

\* for word in keywords: if word in line: yield Keyword(...)
LineHits(line, caption, ci, li, kws) ==
    LET all == [k \in 1..Len(kws) |->
                  [word |-> kws[k], start |-> caption.start, end |-> caption.end,
                   cue |-> ci, line |-> li, kw |-> k]]
    IN  SelectSeq(all, LAMBDA h : Contains(h.word, line))

RECURSIVE ScanLines(_, _, _, _, _, _)
\* for line in lines: the hits of lines li.. and prevline afterwards
ScanLines(lines, li, caption, ci, kws, prevline) ==
    IF li > Len(lines) THEN [hits |-> <<>>, prevline |-> prevline]
    ELSE IF IsRepeat(lines[li], prevline)
         THEN ScanLines(lines, li + 1, caption, ci, kws, prevline)
         ELSE LET rest == ScanLines(lines, li + 1, caption, ci, kws, lines[li])
              IN  [hits |-> LineHits(lines[li], caption, ci, li, kws) \o rest.hits,
                   prevline |-> rest.prevline]

\* prevline set back at every caption
NextPrevlineReset(prevline, after) == ""

\* prevline as the loop over the captions finds it at the next caption
NextPrevline(prevline, after) == after

RECURSIVE ScanCaptions(_, _, _, _)
\* for caption in webvtt.read(vttfile): the hits of captions ci..
ScanCaptions(vtt, ci, kws, prevline) ==
    IF ci > Len(vtt) THEN <<>>
    ELSE LET here == ScanLines(CaptionLines(vtt[ci]), 1, vtt[ci], ci, kws, prevline)
         IN  here.hits \o ScanCaptions(vtt, ci + 1, kws, NextPrevline(prevline, here.prevline))

TaggedHits(vtt, kws) == ScanCaptions(vtt, 1, kws, "")

Keyword(h) == [word |-> h.word, start |-> h.start, end |-> h.end]

find_keywords(vtt, kws) ==
    LET t == TaggedHits(vtt, kws) IN [i \in 1..Len(t) |-> Keyword(t[i])]

(***************************************************************************)
(* find_all_keywords: one step per directory entry.                        *)
(***************************************************************************)
ScanDir == "subtitles"

\* entry.name.split("=")[0]
VideoId(name) == Split(name, "=")[1]

Video(id, vttpath, vidpath, rate, hs) ==
    [id |-> id, vttpath |-> vttpath, vidpath |-> vidpath, fps |-> rate, hits |-> hs]

\* every entry kept, with or without hits
RetainAll(res, entry, hs) ==
    Append(res, Video(Split(entry.name, "=")[1], ScanDir \o "/" \o entry.name, "", 0, hs))

\* if hits: result.append(Video(video_id, entry.path, "", 0.0, hits))
Retain(res, entry, hs) ==
    IF hs # <<>>
    THEN Append(res, Video(VideoId(entry.name), ScanDir \o "/" \o entry.name, "", 0, hs))
    ELSE res

ScanEntry ==
    /\ pc = "scan"
    /\ entry_i < Len(directory)
    /\ LET entry == directory[entry_i + 1]
           t     == TaggedHits(entry.vtt, keywords)
       IN  /\ hits' = find_keywords(entry.vtt, keywords)
           /\ prov' = [i \in 1..Len(t) |-> [cue |-> t[i].cue, line |-> t[i].line, kw |-> t[i].kw]]
           /\ result' = Retain(result, entry, hits')
    /\ entry_i' = entry_i + 1
    /\ UNCHANGED <<pc, directory, keywords, edlVars, tcVars>>

ScanReturn ==
    /\ pc = "scan"
    /\ entry_i = Len(directory)
    /\ pc' = "scanned"
    /\ UNCHANGED <<scanVars, result, edlVars, tcVars>>

(***************************************************************************)
(* The inputs of the scan.                                                 *)
(***************************************************************************)
RawLines == {"", "a", "b", "aB ", " b"}

RECURSIVE JoinedLines(_)
\* the texts of exactly n raw lines joined by line breaks
JoinedLines(n) ==
    IF n = 1 THEN RawLines
    ELSE {l \o "\n" \o t : l \in RawLines, t \in JoinedLines(n - 1)}

RECURSIVE TextSeqs(_)
\* the sequences of caption texts holding at most n lines in all
TextSeqs(n) ==
    {<<>>} \cup UNION {{<<t>> \o r : t \in JoinedLines(k), r \in TextSeqs(n - k)} : k \in 1..n}

\* caption k of a file runs from (k-1)*CueTicks to k*CueTicks
Captions(texts) ==
    [k \in 1..Len(texts) |->
        [text |-> texts[k], start |-> (k - 1) * CueTicks, end |-> k * CueTicks]]

KeywordLists == {<<>>, <<"b">>, <<"b", "ab">>, <<"c", "a">>}

FileNames == {"x1=t.vtt", "y2=a=b.vtt", "z3.vtt"}

SmallFiles == {Captions(<<"a\nb", "b\nc">>), Captions(<<"c">>), Captions(<<"aB \nb">>)}

RECURSIVE Listings(_)
\* the directory listings of at most n entries, all of different names
Listings(n) ==
    IF n = 0 THEN {<<>>}
    ELSE Listings(n - 1) \cup
         {Append(d, [name |-> nm, vtt |-> v]) :
             d \in {x \in Listings(n - 1) : Len(x) = n - 1}, nm \in FileNames, v \in SmallFiles}

DistinctNames(d) == \A i, j \in 1..Len(d) : i # j => d[i].name # d[j].name

Directories ==
    {<<[name |-> "x1=t.vtt", vtt |-> Captions(ts)]>> : ts \in TextSeqs(MaxLines)}
    \cup {d \in Listings(MaxFiles) : DistinctNames(d)}

IdleEdl ==
    /\ f = <<>> /\ counter = 0 /\ edit_time = 0
    /\ vid_i = 0 /\ hit_i = 0

IdleTc == secs = 0 /\ fps = 0 /\ code = ""

InitScan ==
    /\ pc = "scan"
    /\ directory \in Directories
    /\ keywords \in KeywordLists
    /\ entry_i = 0
    /\ hits = <<>>
    /\ prov = <<>>
    /\ result = <<>>
    /\ IdleEdl
    /\ IdleTc

NextScan == ScanEntry \/ ScanReturn

SpecScan == InitScan /\ [][NextScan]_vars

(***************************************************************************)
(* timecode.  fps is a whole number of frames per second.                  *)
(***************************************************************************)
Abs(n) == IF n < 0 THEN 0 - n ELSE n

\* int(x) of the quotient n / d, d > 0: truncation toward zero
TruncDiv(n, d) == IF n >= 0 THEN n \div d ELSE 0 - ((0 - n) \div d)

RECURSIVE Zeros(_)
Zeros(n) == IF n <= 0 THEN "" ELSE "0" \o Zeros(n - 1)

\* format(n, "0w") and "%0wd" % n: sign first, zero-filled to w characters at least
ZeroPad(n, w) ==
    LET sign   == IF n < 0 THEN "-" ELSE ""
        digits == ToString(Abs(n))
    IN  sign \o Zeros(w - Len(sign) - Len(digits)) \o digits

\* str(datetime.timedelta(seconds=total)): days are split off, as timedelta normalises
TimedeltaStr(total) ==
    LET days == total \div (24 * 60 * 60)
        rest == total % (24 * 60 * 60)
        hh   == rest \div (60 * 60)
        mm   == (rest % (60 * 60)) \div 60
        ss   == rest % 60
        hms  == ToString(hh) \o ":" \o ZeroPad(mm, 2) \o ":" \o ZeroPad(ss, 2)
    IN  IF days # 0
        THEN ToString(days) \o " day" \o (IF Abs(days) # 1 THEN "s" ELSE "") \o ", " \o hms
        ELSE hms

\* int(secs)
WholeSecs(t) == TruncDiv(t, TicksPerSec)

\* int((secs % 1) * fps)
Frame(t, rate) == TruncDiv((t % TicksPerSec) * rate, TicksPerSec)

timecode(t, rate) == TimedeltaStr(WholeSecs(t)) \o ":" \o ZeroPad(Frame(t, rate), 2)

(***************************************************************************)
(* write_edl: the header, then one step per hit.                           *)
(***************************************************************************)
EdlLimit == 1000

Title == "Supercut"

RECURSIVE BaseName(_)
\* os.path.split(p)[1]: what follows the last slash
BaseName(p) ==
    IF \E i \in 1..Len(p) : Char(p, i) = "/"
    THEN BaseName(SubSeq(p, 1 + (CHOOSE i \in 1..Len(p) : Char(p, i) = "/"), Len(p)))
    ELSE p

\* one frame rate for every video
SourceRateFixed(video) == 30

\* video.fps, as the timecodes of the source in and out points take it
SourceRate(video) == video.fps

\* video.fps, as the timecodes of the program in and out points take it
ProgramRate(video) == video.fps

\* program-out taken at the cursor, the duration left out
EditOfNoDuration(video, hit, n, at) ==
    [counter |-> n,
     srcIn   |-> timecode(hit.start, video.fps),
     srcOut  |-> timecode(hit.end, video.fps),
     progIn  |-> timecode(at, video.fps),
     progOut |-> timecode(at, video.fps),
     path    |-> BaseName(video.vidpath)]

\* the values formatted into the record of one hit
EditOf(video, hit, n, at) ==
    LET dt == hit.end - hit.start
    IN  [counter |-> n,
         srcIn   |-> timecode(hit.start, SourceRate(video)),
         srcOut  |-> timecode(hit.end, SourceRate(video)),
         progIn  |-> timecode(at, ProgramRate(video)),
         progOut |-> timecode(at + dt, ProgramRate(video)),
         path    |-> BaseName(video.vidpath)]

\* the two lines written for one edit
EditLines(e) ==
    ZeroPad(e.counter, 3) \o "  AX       AA/V  C        "
      \o e.srcIn \o " " \o e.srcOut \o " " \o e.progIn \o " " \o e.progOut \o "\n"
      \o "* FROM CLIP NAME: " \o e.path \o "\n"

Header == <<"TITLE: " \o Title \o "\n", "FCM: DROP FRAME\n", "\n">>

\* counter += 1
NextCounter(n) == n + 1

\* the limit off by one
WithinLimitInclusive(n) == n <= EdlLimit

\* assert counter < 1000
WithinLimit(n) == n < EdlLimit

EdlHeader ==
    /\ pc = "edl"
    /\ f' = Header
    /\ counter' = 1
    /\ edit_time' = 0
    /\ vid_i' = 1
    /\ hit_i' = 0
    /\ pc' = "edl_loop"
    /\ UNCHANGED <<scanVars, result, tcVars>>

\* the inner loop is through: the outer loop takes the next video
EdlNextVideo ==
    /\ pc = "edl_loop"
    /\ vid_i <= Len(result)
    /\ hit_i = Len(result[vid_i].hits)
    /\ vid_i' = vid_i + 1
    /\ hit_i' = 0
    /\ UNCHANGED <<pc, scanVars, result, f, counter, edit_time, tcVars>>

EdlEdit ==
    /\ pc = "edl_loop"
    /\ vid_i <= Len(result)
    /\ hit_i < Len(result[vid_i].hits)
    /\ WithinLimit(counter)
    /\ LET video == result[vid_i]
           hit   == video.hits[hit_i + 1]
       IN  /\ f' = Append(f, EditLines(EditOf(video, hit, counter, edit_time)))
           /\ edit_time' = edit_time + (hit.end - hit.start)
    /\ counter' = NextCounter(counter)
    /\ hit_i' = hit_i + 1
    /\ UNCHANGED <<pc, scanVars, result, vid_i, tcVars>>

\* the assertion fails; main's `with` closes the file as it is
EdlLimitExceeded ==
    /\ pc = "edl_loop"
    /\ vid_i <= Len(result)
    /\ hit_i < Len(result[vid_i].hits)
    /\ ~WithinLimit(counter)
    /\ pc' = "edl_failed"
    /\ UNCHANGED <<scanVars, result, edlVars, tcVars>>

EdlReturn ==
    /\ pc = "edl_loop"
    /\ vid_i > Len(result)
    /\ pc' = "edl_done"
    /\ UNCHANGED <<scanVars, result, edlVars, tcVars>>

(***************************************************************************)
(* The inputs of write_edl.                                                *)
(***************************************************************************)
HitSpans == {<<60, 60>>, <<0, 2>>, <<60, 330>>, <<3, 125>>}

Hit(span) == [word |-> "b", start |-> span[1], end |-> span[2]]

RECURSIVE HitLists(_)
\* the hit lists of exactly n hits
HitLists(n) ==
    IF n = 0 THEN {<<>>}
    ELSE {<<Hit(s)>> \o r : s \in HitSpans, r \in HitLists(n - 1)}

\* videos as download_keyword_videos and read_result_fps leave them (fps > 20)
ResolvedKinds ==
    {[id |-> "x1", vidpath |-> "videos/x1=t.mp4", fps |-> 24],
     [id |-> "y2", vidpath |-> "y2=a=b.mp4", fps |-> 30]}

\* videos whose fps is unresolved: as find_all_keywords leaves them, or negative
UnresolvedKinds ==
    {[id |-> "x1", vidpath |-> "", fps |-> 0],
     [id |-> "y2", vidpath |-> "videos/y2=a=b.mp4", fps |-> 0 - 1]}

VideoOf(kind, hs) ==
    Video(kind.id, ScanDir \o "/" \o kind.id \o "=t.vtt", kind.vidpath, kind.fps, hs)

RECURSIVE Corpora(_, _)
\* the corpora of at most n hits in all, every video with a hit
Corpora(kinds, n) ==
    {<<>>} \cup
    UNION {{<<VideoOf(k, hs)>> \o r : k \in kinds, hs \in HitLists(m), r \in Corpora(kinds, n - m)} :
             m \in 1..n}

\* a corpus of n hits: two in the first video and the others in the second
LongCorpus(n) ==
    <<VideoOf(CHOOSE k \in ResolvedKinds : k.fps = 24, [i \in 1..2 |-> Hit(<<60, 330>>)]),
      VideoOf(CHOOSE k \in ResolvedKinds : k.fps = 30, [i \in 1..(n - 2) |-> Hit(<<0, 2>>)])>>

LongCorpora == {LongCorpus(n) : n \in (EdlLimit - 1)..(EdlLimit + Overshoot)}

IdleScan ==
    /\ directory = <<>> /\ keywords = <<>> /\ entry_i = 0
    /\ hits = <<>> /\ prov = <<>>

InitEdlOf(corpora) ==
    /\ pc = "edl"
    /\ result \in corpora
    /\ f = <<>>
    /\ counter = 0
    /\ edit_time = 0
    /\ vid_i = 0
    /\ hit_i = 0
    /\ IdleScan
    /\ IdleTc

InitEdl == InitEdlOf(Corpora(ResolvedKinds, MaxEdits) \cup LongCorpora)

InitEdlAnyFps ==
    InitEdlOf(Corpora(ResolvedKinds \cup UnresolvedKinds, MaxEdits) \cup LongCorpora)

NextEdl == EdlHeader \/ EdlNextVideo \/ EdlEdit \/ EdlLimitExceeded \/ EdlReturn

SpecEdl == InitEdl /\ [][NextEdl]_vars

SpecEdlAnyFps == InitEdlAnyFps /\ [][NextEdl]_vars

(***************************************************************************)
(* timecode as a function of its own: the inputs, and the call.            *)
(***************************************************************************)
TcWholeSecs == {0, 1, 59, 60, 90, 3599, 3600, 86399, 86400, 90000, 180000}

TcSecs ==
    {w * TicksPerSec + fr : w \in TcWholeSecs,
                           fr \in {0, 1, TicksPerSec \div 2, TicksPerSec - 1}}

TcRates == {24, 25, 30}

CallTimecode ==
    /\ pc = "tc"
    /\ code' = timecode(secs, fps)
    /\ pc' = "tc_done"
    /\ UNCHANGED <<scanVars, result, edlVars, secs, fps>>

InitTc ==
    /\ pc = "tc"
    /\ secs \in TcSecs
    /\ fps \in TcRates
    /\ code = ""
    /\ result = <<>>
    /\ IdleScan
    /\ IdleEdl

NextTc == CallTimecode

SpecTc == InitTc /\ [][NextTc]_vars

(***************************************************************************)
(* The scan: find_keywords and find_all_keywords.                          *)
(***************************************************************************)
\* the file scanned last
LastVtt == directory[entry_i].vtt

RECURSIVE PhysicalLinesFrom(_, _)
\* the physical lines of the cues ci.. of a file, each with its cue
PhysicalLinesFrom(vtt, ci) ==
    IF ci > Len(vtt) THEN <<>>
    ELSE LET ls == CaptionLines(vtt[ci])
         IN  [i \in 1..Len(ls) |-> [line |-> ls[i], cue |-> ci]] \o PhysicalLinesFrom(vtt, ci + 1)

PhysicalLines(vtt) == PhysicalLinesFrom(vtt, 1)

RECURSIVE PreviousLine(_, _)
\* the 'previous line' state after the first i physical lines
PreviousLine(L, i) ==
    IF i = 0 THEN ""
    ELSE LET before == PreviousLine(L, i - 1)
         IN  IF L[i].line = before THEN before ELSE L[i].line

Accepted(L, i) == L[i].line # PreviousLine(L, i - 1)

\* the pairs (accepted line, keyword contained in it)
HitPairs(vtt, kws) ==
    LET L == PhysicalLines(vtt)
    IN  {<<i, k>> \in (1..Len(L)) \X (1..Len(kws)) :
            Accepted(L, i) /\ Contains(kws[k], L[i].line)}

PairHit(vtt, kws, p) ==
    LET c == PhysicalLines(vtt)[p[1]].cue
    IN  [word |-> kws[p[2]], start |-> vtt[c].start, end |-> vtt[c].end]

\* C1: find_keywords emits exactly one hit per pair (accepted line, keyword it
\* contains), with the start and end of the line's cue; a line is accepted unless
\* it equals the 'previous line' state, which starts empty and runs across cues.
C1_OneHitPerAcceptedPair ==
    (pc \in {"scan", "scanned"} /\ entry_i > 0) =>
        LET pairs == HitPairs(LastVtt, keywords)
        IN  /\ Len(hits) = Cardinality(pairs)
            /\ \A p \in pairs :
                 LET h == PairHit(LastVtt, keywords, p)
                 IN  Cardinality({j \in 1..Len(hits) : hits[j] = h})
                       = Cardinality({q \in pairs : PairHit(LastVtt, keywords, q) = h})

\* C1: the cues "a\nb", "b\nc" scanned for "b" gave one hit, from the first cue
C1_Witness ==
    /\ pc = "scan" /\ entry_i > 0
    /\ Len(LastVtt) = 2
    /\ LastVtt[1].text = "a\nb" /\ LastVtt[2].text = "b\nc"
    /\ keywords = <<"b">>
    /\ hits = <<[word |-> "b", start |-> LastVtt[1].start, end |-> LastVtt[1].end]>>

\* the entries scanned so far whose file has a hit
KeptEntries == {i \in 1..entry_i : find_keywords(directory[i].vtt, keywords) # <<>>}

\* the r-th kept entry
KeptAt(r) == CHOOSE i \in KeptEntries : Cardinality({j \in KeptEntries : j < i}) = r - 1

\* the file name up to its first "=", the whole name when it has none
NamePrefix(name) ==
    LET eq == {i \in 1..Len(name) : Char(name, i) = "="}
    IN  IF eq = {} THEN name
        ELSE SubSeq(name, 1, (CHOOSE i \in eq : \A j \in eq : i <= j) - 1)

\* C8: every Video of find_all_keywords has hits, an empty vidpath, fps 0 and the
\* name's prefix before the first "=" as id; a file without a hit gives no record
\* and a file with a hit exactly one, in the order of the directory.
C8_ScanRecords ==
    pc \in {"scan", "scanned"} =>
        /\ Len(result) = Cardinality(KeptEntries)
        /\ \A r \in 1..Len(result) :
             LET e == directory[KeptAt(r)]
             IN  /\ result[r].hits # <<>>
                 /\ result[r].hits = find_keywords(e.vtt, keywords)
                 /\ result[r].vidpath = ""
                 /\ result[r].fps = 0
                 /\ result[r].id = NamePrefix(e.name)

\* C8: a scan that went through a file without a hit and kept two others
C8_Witness ==
    /\ pc = "scanned"
    /\ Len(directory) = 3
    /\ Len(result) = 2
    /\ result[1].id = "y2"
    /\ \E i \in 1..Len(directory) : i \notin KeptEntries

\* C9 as stated: hits come in cue order, and two hits of one cue in keyword order
C9_KeywordOrderWithinCue ==
    \A i, j \in 1..Len(prov) :
        i < j => /\ prov[i].cue <= prov[j].cue
                 /\ (prov[i].cue = prov[j].cue => prov[i].kw <= prov[j].kw)

\* C9, amended: hits come in cue order, within a cue in line order, and within a
\* line in keyword order.
C9_CueLineKeywordOrder ==
    \A i, j \in 1..Len(prov) :
        i < j => \/ prov[i].cue < prov[j].cue
                 \/ /\ prov[i].cue = prov[j].cue
                    /\ \/ prov[i].line < prov[j].line
                       \/ prov[i].line = prov[j].line /\ prov[i].kw < prov[j].kw

\* C9: a cue gave hits from two of its lines, and two from one line
C9_Witness ==
    \E i, j, k \in 1..Len(prov) :
        /\ i < j /\ j < k
        /\ prov[i].cue = prov[k].cue
        /\ prov[i].line = prov[j].line
        /\ prov[j].line < prov[k].line

(***************************************************************************)
(* The EDL: what write_edl wrote, read back from the text in the sink.     *)
(***************************************************************************)
\* the edit records in the sink: what follows the three lines of the header
NumEdits == IF Len(f) > Len(Header) THEN Len(f) - Len(Header) ELSE 0

ClipPrefix == "* FROM CLIP NAME: "

\* the number of the k-th edit record, as written: what precedes its first space
WrittenNumber(k) ==
    LET s == f[Len(Header) + k]
    IN  SubSeq(s, 1, (CHOOSE i \in 1..Len(s) : Char(s, i) = " " /\ \A j \in 1..(i - 1) : Char(s, j) # " ") - 1)

\* the other fields of the k-th edit record, as written
Written(k) ==
    LET ls    == Split(f[Len(Header) + k], "\n")
        parts == Split(ls[1], " ")
        n     == Len(parts)
    IN  [srcIn   |-> parts[n - 3],
         srcOut  |-> parts[n - 2],
         progIn  |-> parts[n - 1],
         progOut |-> parts[n],
         clip    |-> SubSeq(ls[2], Len(ClipPrefix) + 1, Len(ls[2])),
         lines   |-> Len(ls) - 1]

Digits == "0123456789"

RECURSIVE ParseNat(_)
ParseNat(str) ==
    IF str = "" THEN 0
    ELSE 10 * ParseNat(SubSeq(str, 1, Len(str) - 1))
         + (CHOOSE d \in 0..9 : Char(Digits, d + 1) = Char(str, Len(str)))

\* a timecode H:MM:SS:FF of less than a day, as whole seconds and frames
TimecodeValue(tc) ==
    LET p == Split(tc, ":")
    IN  <<(ParseNat(p[1]) * 60 + ParseNat(p[2])) * 60 + ParseNat(p[3]), ParseNat(p[4])>>

Earlier(a, b) ==
    LET x == TimecodeValue(a)
        y == TimecodeValue(b)
    IN  x[1] < y[1] \/ (x[1] = y[1] /\ x[2] < y[2])

RECURSIVE FlatHitsFrom(_, _)
\* the hits of the videos vi.. of a corpus, one after the other, each with its video's
\* fps and vidpath
FlatHitsFrom(corpus, vi) ==
    IF vi > Len(corpus) THEN <<>>
    ELSE [i \in 1..Len(corpus[vi].hits) |->
            [hit |-> corpus[vi].hits[i], fps |-> corpus[vi].fps, vidpath |-> corpus[vi].vidpath]]
         \o FlatHitsFrom(corpus, vi + 1)

FlatHits == FlatHitsFrom(result, 1)

EdlEnded == pc \in {"edl_done", "edl_failed"}

\* C2 as stated: the program-out written in a record is the program-in written in
\* the next one.
C2_ProgramContiguous ==
    EdlEnded => \A k \in 1..(NumEdits - 1) : Written(k).progOut = Written(k + 1).progIn

\* C3: the records are numbered 1, 2, 3, ... with three digits and none above 999;
\* write_edl completes when the corpus has at most 999 hits, with one record per
\* hit, and fails when it has more, with the header and the records 1..999 written.
C3_NumberedUpTo999 ==
    /\ NumEdits <= EdlLimit - 1
    /\ NumEdits > 0 =>
         /\ ParseNat(WrittenNumber(NumEdits)) = NumEdits
         /\ Len(WrittenNumber(NumEdits)) = 3
    /\ EdlEnded =>
         /\ \A k \in 1..NumEdits : ParseNat(WrittenNumber(k)) = k
         /\ SubSeq(f, 1, Len(Header)) = <<"TITLE: Supercut\n", "FCM: DROP FRAME\n", "\n">>
    /\ pc = "edl_done" => (Len(FlatHits) <= EdlLimit - 1 /\ NumEdits = Len(FlatHits))
    /\ pc = "edl_failed" => (Len(FlatHits) >= EdlLimit /\ NumEdits = EdlLimit - 1)

\* C3: a corpus of exactly 1000 hits failed with 999 records written
C3_Witness ==
    /\ pc = "edl_failed"
    /\ Len(FlatHits) = EdlLimit
    /\ NumEdits = EdlLimit - 1
    /\ WrittenNumber(NumEdits) = "999"

\* C3: a corpus of exactly 999 hits completed
C3_WitnessCompleted ==
    /\ pc = "edl_done"
    /\ Len(FlatHits) = EdlLimit - 1
    /\ WrittenNumber(NumEdits) = "999"

\* C4 as stated: a video with hits and fps <= 0 makes write_edl fail, with no edit
\* record written for that video.
C4_UnresolvedFpsFails ==
    /\ pc = "edl_done" => \A v \in 1..Len(result) : result[v].hits = <<>> \/ result[v].fps > 0
    /\ (pc = "edl_loop" /\ vid_i <= Len(result) /\ result[vid_i].fps <= 0) => hit_i = 0

\* C5 as stated: after write_edl failed, the sink holds nothing.
C5_NothingLeftOnFailure == pc = "edl_failed" => f = <<>>

ClipName(path) ==
    LET sl == {i \in 1..Len(path) : Char(path, i) = "/"}
    IN  IF sl = {} THEN path
        ELSE SubSeq(path, (CHOOSE i \in sl : \A j \in sl : j <= i) + 1, Len(path))

\* C10: when write_edl completes the sink holds the three header lines and one
\* record per hit, the k-th for the k-th hit of the corpus taken video by video:
\* its source in and out are the timecodes of the hit's start and end at the fps
\* of the hit's video, and its clip name is the base name of that video's vidpath.
C10_OneRecordPerHitInOrder ==
    pc = "edl_done" =>
        LET flat == FlatHits
        IN  /\ SubSeq(f, 1, Len(Header)) = <<"TITLE: Supercut\n", "FCM: DROP FRAME\n", "\n">>
            /\ Len(f) = 3 + Len(flat)
            /\ \A k \in 1..Len(flat) :
                 LET w == Written(k)
                 IN  /\ w.srcIn = timecode(flat[k].hit.start, flat[k].fps)
                     /\ w.srcOut = timecode(flat[k].hit.end, flat[k].fps)
                     /\ w.clip = ClipName(flat[k].vidpath)
                     /\ w.lines = 2

\* C10: a completed EDL of two videos of different fps, whose hits start at the same
\* time and are written with different frames
C10_Witness ==
    /\ pc = "edl_done"
    /\ Len(result) = 2
    /\ result[1].fps # result[2].fps
    /\ NumEdits = 3
    /\ FlatHits[2].hit.start = FlatHits[3].hit.start
    /\ Written(2).srcIn # Written(3).srcIn
    /\ Written(2).clip = "x1=t.mp4"

\* C10: the EDL of the empty corpus is the header
C10_WitnessEmpty == pc = "edl_done" /\ result = <<>> /\ Len(f) = 3

(***************************************************************************)
(* timecode.                                                               *)
(***************************************************************************)
TwoDigits(n) == IF n < 10 THEN "0" \o ToString(n) ELSE ToString(n)

\* H:MM:SS:FF of a time of t ticks at a frame rate
HoursMinsSecsFrames(t, rate) ==
    LET whole == t \div TicksPerSec
        frac  == t - whole * TicksPerSec
    IN  ToString(whole \div 3600) \o ":" \o TwoDigits((whole \div 60) % 60) \o ":"
          \o TwoDigits(whole % 60) \o ":" \o TwoDigits((frac * rate) \div TicksPerSec)

\* C7 as stated: for secs >= 0 and fps > 0, timecode(secs, fps) is H:MM:SS:FF, the
\* hours, minutes and seconds of the truncated whole seconds and the frame
\* floor(frac(secs) * fps) on two digits.
C7_HoursMinsSecsFrames ==
    pc = "tc_done" => code = HoursMinsSecsFrames(secs, fps)

\* the same for the times of less than a day (24 * 60 * 60 seconds)
TimecodeBelowADay ==
    (pc = "tc_done" /\ secs < 24 * 60 * 60 * TicksPerSec) => code = HoursMinsSecsFrames(secs, fps)

TimecodeExample ==
    (pc = "tc_done" /\ secs = 90 * TicksPerSec + TicksPerSec \div 2 /\ fps = 30)
        => code = "0:01:30:15"

====
